---- MODULE Spec2Model ----
(***************************************************************************)
(* Model of dtsynth/dtb_parser.py (class DtbParser): the property decoder, *)
(* the two tree walks (get_root_node, traverse_tree), the phandle index    *)
(* built at construction and resolve_phandle.                              *)
(*                                                                         *)
(* Representation.                                                         *)
(*   bytes            a sequence of integers 0..255                        *)
(*   str decoded from bytes   a sequence of code points (integers)         *)
(*   node name, path  a sequence of one-character strings                  *)
(*   fdt.Node         [props |-> sequence of [name, data],                 *)
(*                     subnodes |-> sequence of [name, node]]              *)
(*   int (a cell)     <<high, low>>, its two 16-bit halves                 *)
(*   a decoded value  [kind |-> "str"|"strlist"|"int"|"intlist"|"bytes",   *)
(*                     val |-> ...]                                        *)
(***************************************************************************)
EXTENDS Integers, Sequences, FiniteSets, TLC

VARIABLES
    dtb,            \* self._dtb: the decoder's root node
    empty_truthy,   \* whether bool(prop) is True for a property with empty data
    phandle_map,    \* self._phandle_map
    op,             \* the last public method called ("init" after construction)
    arg,            \* its argument (resolve_phandle), 0 otherwise
    ret,            \* its return value
    data,           \* prop_value.data handed to _decode_property
    decoded         \* what _decode_property returned for data

vars == <<dtb, empty_truthy, phandle_map, op, arg, ret, data, decoded>>

----------------------------------------------------------------------------
(* Bounds of the explored inputs *)

\* longest byte string over Bytes handed to _decode_property
MaxLen == 4
\* most 4-byte cells in a cell-array input of _decode_property
MaxCells == 2
\* most nodes below the root in a decoder tree
MaxNodes == 3

\* byte values of the general inputs: NUL, 'A', the two bytes of U+00E9,
\* and 0xFF, which no UTF-8 sequence contains
Bytes == {0, 65, 195, 169, 255}
\* byte values of the cell-array inputs
CellBytes == {0, 1, 255}

----------------------------------------------------------------------------
(* Values *)

None == [kind |-> "none", val |-> 0]
NotCalled == [kind |-> "notcalled", val |-> 0]
StrVal(s) == [kind |-> "str", val |-> s]
StrListVal(l) == [kind |-> "strlist", val |-> l]
IntVal(i) == [kind |-> "int", val |-> i]
IntListVal(l) == [kind |-> "intlist", val |-> l]
BytesVal(b) == [kind |-> "bytes", val |-> b]
\* a str held as its characters: a node name, a path, an address
TextVal(t) == [kind |-> "text", val |-> t]

----------------------------------------------------------------------------
(* bytes helpers *)

\* b'\x00' in data
HasNull(d) == \E i \in 1..Len(d) : d[i] = 0

\* all(b == 0 for b in data)
AllZero(d) == \A i \in 1..Len(d) : d[i] = 0

\* index of the first sep of s at or after i, Len(s)+1 when there is none
RECURSIVE NextSep(_, _, _)
NextSep(s, sep, i) ==
    IF i > Len(s) THEN Len(s) + 1
    ELSE IF s[i] = sep THEN i
    ELSE NextSep(s, sep, i + 1)

\* s.split(sep) from position i on: every segment, empty ones included
RECURSIVE SplitFrom(_, _, _)
SplitFrom(s, sep, i) ==
    LET j == NextSep(s, sep, i)
    IN  IF j > Len(s) THEN << SubSeq(s, i, Len(s)) >>
        ELSE << SubSeq(s, i, j - 1) >> \o SplitFrom(s, sep, j + 1)

\* s.split(sep), for bytes and for str
Split(s, sep) == SplitFrom(s, sep, 1)

\* data.split(b'\x00')
SplitNull(d) == Split(d, 0)

\* [x for x in parts if x]
NonEmptyParts(parts) == SelectSeq(parts, LAMBDA p : Len(p) > 0)

\* the big-endian value of at most two bytes
RECURSIVE BigEndian(_)
BigEndian(b) ==
    IF Len(b) = 0 THEN 0
    ELSE BigEndian(SubSeq(b, 1, Len(b) - 1)) * 256 + b[Len(b)]

\* a slip: byteorder='little'
IntFromBytesLittle(b) ==
    LET r == [i \in 1..Len(b) |-> b[Len(b) + 1 - i]]
        n == Len(b)
    IN  IF n <= 2 THEN << 0, BigEndian(r) >>
        ELSE << BigEndian(SubSeq(r, 1, n - 2)), BigEndian(SubSeq(r, n - 1, n)) >>

\* int.from_bytes(b, byteorder='big') for the at most 4 bytes the parser
\* hands it. A Python int is unbounded and the value can need 32 bits, while
\* TLC's integers are 32-bit signed: the value is held as its two
\* 16-bit halves <<high, low>>, standing for high * 65536 + low.
IntFromBytesBig(b) ==
    LET n == Len(b)
    IN  IF n <= 2 THEN << 0, BigEndian(b) >>
        ELSE << BigEndian(SubSeq(b, 1, n - 2)), BigEndian(SubSeq(b, n - 1, n)) >>

\* UTF-8 continuation byte
IsCont(x) == x >= 128 /\ x <= 191

\* the length of the well-formed UTF-8 sequence that starts at b[i], 0 if none
Utf8SeqLen(b, i) ==
    LET n == Len(b)
        b0 == b[i]
        b1 == IF i + 1 <= n THEN b[i + 1] ELSE 0
        b2 == IF i + 2 <= n THEN b[i + 2] ELSE 0
        b3 == IF i + 3 <= n THEN b[i + 3] ELSE 0
    IN  IF b0 < 128 THEN 1
        ELSE IF b0 >= 194 /\ b0 <= 223 /\ IsCont(b1) THEN 2
        ELSE IF b0 >= 224 /\ b0 <= 239 /\ IsCont(b1) /\ IsCont(b2)
                /\ (b0 = 224 => b1 >= 160) /\ (b0 = 237 => b1 <= 159) THEN 3
        ELSE IF b0 >= 240 /\ b0 <= 244 /\ IsCont(b1) /\ IsCont(b2) /\ IsCont(b3)
                /\ (b0 = 240 => b1 >= 144) /\ (b0 = 244 => b1 <= 143) THEN 4
        ELSE 0

\* the code point of the well-formed sequence of length k that starts at b[i]
Utf8CodePoint(b, i, k) ==
    CASE k = 1 -> b[i]
      [] k = 2 -> (b[i] % 32) * 64 + (b[i + 1] % 64)
      [] k = 3 -> (b[i] % 16) * 4096 + (b[i + 1] % 64) * 64 + (b[i + 2] % 64)
      [] k = 4 -> (b[i] % 8) * 262144 + (b[i + 1] % 64) * 4096
                    + (b[i + 2] % 64) * 64 + (b[i + 3] % 64)

\* part.decode('utf-8', errors='ignore') from position i on: a byte that
\* starts no well-formed sequence is dropped
RECURSIVE DecodeUtf8From(_, _)
DecodeUtf8From(b, i) ==
    IF i > Len(b) THEN << >>
    ELSE LET k == Utf8SeqLen(b, i)
         IN  IF k = 0 THEN DecodeUtf8From(b, i + 1)
             ELSE << Utf8CodePoint(b, i, k) >> \o DecodeUtf8From(b, i + k)

DecodeUtf8Ignore(b) == DecodeUtf8From(b, 1)

----------------------------------------------------------------------------
(* DtbParser._decode_property *)

\* a slip: the all-zero test dropped from the string branch's condition
IsStringDataAnyNull(d) == HasNull(d)

\* the condition of the string branch
IsStringData(d) == HasNull(d) /\ ~AllZero(d)

\* a slip: the len(data) > 0 test dropped from the cell branch's condition
IsCellDataAnyLength(d) == Len(d) % 4 = 0

\* the condition of the cell branch, reached when the string branch is not taken
IsCellData(d) == Len(d) % 4 = 0 /\ Len(d) > 0

\* the string branch: split, drop empty parts, decode, unwrap a single part
DecodeStrings(d) ==
    LET parts == NonEmptyParts(SplitNull(d))
        string_parts == [i \in 1..Len(parts) |-> DecodeUtf8Ignore(parts[i])]
    IN  IF Len(string_parts) = 1 THEN StrVal(string_parts[1])
        ELSE StrListVal(string_parts)

\* the cell branch: one big-endian integer per 4 bytes, unwrap a single cell
DecodeCells(d) ==
    LET cells == [i \in 1..(Len(d) \div 4) |->
                    IntFromBytesBig(SubSeq(d, 4 * (i - 1) + 1, 4 * i))]
    IN  IF Len(cells) = 1 THEN IntVal(cells[1]) ELSE IntListVal(cells)

\* a slip: the cell branch tested before the string branch
DecodePropertyCellsFirst(d) ==
    IF IsCellData(d) THEN DecodeCells(d)
    ELSE IF IsStringData(d) THEN DecodeStrings(d)
    ELSE BytesVal(d)

DecodeProperty(d) ==
    IF IsStringData(d) THEN DecodeStrings(d)
    ELSE IF IsCellData(d) THEN DecodeCells(d)
    ELSE BytesVal(d)

----------------------------------------------------------------------------
(* The decoder's node interface *)

\* node.get_property(name) finds a property
HasProperty(node, name) == \E i \in 1..Len(node.props) : node.props[i].name = name

\* the property node.get_property(name) returns
GetProperty(node, name) ==
    node.props[CHOOSE i \in 1..Len(node.props) :
                  /\ node.props[i].name = name
                  /\ \A j \in 1..(i - 1) : node.props[j].name # name]

\* bool(prop) in "if phandle_prop:"; what an empty property gives is the
\* decoder's choice (an object is truthy unless its class defines a length)
Truthy(prop) == Len(prop.data) > 0 \/ empty_truthy

\* prop.data[:4]
First4(d) == SubSeq(d, 1, IF Len(d) < 4 THEN Len(d) ELSE 4)

\* a dict with map[k] = v set
Put(map, k, v) == [x \in (DOMAIN map) \cup {k} |-> IF x = k THEN v ELSE map[x]]

Root == << "/" >>

----------------------------------------------------------------------------
(* DtbParser._build_phandle_map *)

\* a slip: the root not special-cased, so its children get a double slash
ChildPathDoubleSlash(node_path, child_name) == node_path \o << "/" >> \o child_name

\* child_path in traverse_for_phandle
PhandleChildPath(node_path, child_name) ==
    IF node_path # Root THEN node_path \o << "/" >> \o child_name
    ELSE << "/" >> \o child_name

\* a slip: an entry already present is kept (first writer wins)
RecordPhandleKeepFirst(node_path, node, map) ==
    IF HasProperty(node, "phandle") /\ Truthy(GetProperty(node, "phandle"))
    THEN LET phandle_val == IntFromBytesBig(First4(GetProperty(node, "phandle").data))
         IN  IF phandle_val \in DOMAIN map THEN map ELSE Put(map, phandle_val, node_path)
    ELSE map

\* the try block of traverse_for_phandle: the map after this node is looked at
RecordPhandle(node_path, node, map) ==
    IF HasProperty(node, "phandle") /\ Truthy(GetProperty(node, "phandle"))
    THEN LET phandle_val == IntFromBytesBig(First4(GetProperty(node, "phandle").data))
         IN  Put(map, phandle_val, node_path)
    ELSE map

RECURSIVE TraverseForPhandle(_, _, _)
RECURSIVE TraverseSubnodes(_, _, _, _)

\* the for loop of traverse_for_phandle from child i on
TraverseSubnodes(node_path, node, i, map) ==
    IF i > Len(node.subnodes) THEN map
    ELSE TraverseSubnodes(node_path, node, i + 1,
            TraverseForPhandle(PhandleChildPath(node_path, node.subnodes[i].name),
                               node.subnodes[i].node, map))

\* traverse_for_phandle: the map after the walk of node and all below it
TraverseForPhandle(node_path, node, map) ==
    TraverseSubnodes(node_path, node, 1, RecordPhandle(node_path, node, map))

BuildPhandleMap(root) == TraverseForPhandle(Root, root, << >>)

----------------------------------------------------------------------------
(* DtbParser.get_root_node, _convert_fdt_node_to_custom *)

\* path.split('/')[-1]
LastSegment(path) == LET parts == Split(path, "/") IN parts[Len(parts)]

\* the names of the properties of a node
PropNames(fdt_node) == { fdt_node.props[i].name : i \in 1..Len(fdt_node.props) }

\* the data of the last property called name, the one a dict built in order keeps
LastData(fdt_node, name) ==
    fdt_node.props[CHOOSE i \in 1..Len(fdt_node.props) :
                      /\ fdt_node.props[i].name = name
                      /\ \A j \in (i + 1)..Len(fdt_node.props) : fdt_node.props[j].name # name].data

\* props of _convert_fdt_node_to_custom
CustomProps(fdt_node) ==
    [n \in PropNames(fdt_node) |-> DecodeProperty(LastData(fdt_node, n))]

\* child_path of _convert_fdt_node_to_custom
CustomChildPath(path, child_name) ==
    IF path # Root THEN path \o << "/" >> \o child_name
    ELSE << "/" >> \o child_name

\* node_name of _convert_fdt_node_to_custom
CustomNodeName(path) == IF path # Root THEN LastSegment(path) ELSE << >>

RECURSIVE ConvertFdtNodeToCustom(_, _)
ConvertFdtNodeToCustom(path, fdt_node) ==
    [name |-> CustomNodeName(path),
     path |-> path,
     properties |-> CustomProps(fdt_node),
     children |-> [i \in 1..Len(fdt_node.subnodes) |->
                     ConvertFdtNodeToCustom(
                         CustomChildPath(path, fdt_node.subnodes[i].name),
                         fdt_node.subnodes[i].node)]]

----------------------------------------------------------------------------
(* DtbParser.traverse_tree, build_node_dict *)

\* a slip: the raw data stored undecoded
DictPropsRaw(fdt_node) ==
    [n \in PropNames(fdt_node) |-> BytesVal(LastData(fdt_node, n))]

\* props of build_node_dict
DictProps(fdt_node) ==
    [n \in PropNames(fdt_node) |-> DecodeProperty(LastData(fdt_node, n))]

\* child_path of build_node_dict
DictChildPath(path, child_name) ==
    IF path # Root THEN path \o << "/" >> \o child_name
    ELSE << "/" >> \o child_name

\* node_name of build_node_dict
DictNodeName(path) == IF path # Root THEN LastSegment(path) ELSE << >>

\* address of build_node_dict: node_name.split('@')[1] when the name has an '@'
Address(node_name) ==
    IF \E i \in 1..Len(node_name) : node_name[i] = "@"
    THEN TextVal(Split(node_name, "@")[2])
    ELSE None

RECURSIVE BuildNodeDict(_, _)
BuildNodeDict(path, fdt_node) ==
    [path |-> path,
     name |-> DictNodeName(path),
     address |-> Address(DictNodeName(path)),
     props |-> DictProps(fdt_node),
     children |-> [i \in 1..Len(fdt_node.subnodes) |->
                     BuildNodeDict(
                         DictChildPath(path, fdt_node.subnodes[i].name),
                         fdt_node.subnodes[i].node)]]

----------------------------------------------------------------------------
(* DtbParser.resolve_phandle *)

\* a slip: the key looked up is only the low half of the value
MapGetLowHalf(map, phandle_value) ==
    IF << 0, phandle_value[2] >> \in DOMAIN map
    THEN TextVal(map[<< 0, phandle_value[2] >>]) ELSE None

\* self._phandle_map.get(phandle_value)
MapGet(map, phandle_value) ==
    IF phandle_value \in DOMAIN map THEN TextVal(map[phandle_value]) ELSE None

----------------------------------------------------------------------------
(* Decoder trees *)

NameUart == << "u", "a", "r", "t", "@", "1", "0", "0", "0" >>
NameA == << "a" >>
NameB == << "b", "@", "1", "@", "2" >>

Prop(n, d) == [name |-> n, data |-> d]

\* reg = <0x1000 0x100>
RegData == << 0, 0, 16, 0, 0, 0, 1, 0 >>
\* phandle = <0x5>
PhandleData == << 0, 0, 0, 5 >>
\* a phandle property of 2 bytes
ShortPhandleData == << 0, 5 >>
\* a phandle property of 5 bytes whose first 4 are <0x01000100>
LongPhandleData == << 1, 0, 1, 0, 9 >>
\* compatible = "acme,board"
CompatibleData == << 97, 99, 109, 101, 44, 98, 111, 97, 114, 100, 0 >>

\* the nodes below the root, as name and properties: names with one '@', none
\* and two; phandle properties of 4 bytes, none, 2 bytes and 0 bytes
NodeKinds ==
    { << NameUart, << Prop("reg", RegData), Prop("phandle", PhandleData) >> >>,
      << NameA, << >> >>,
      << NameA, << Prop("phandle", ShortPhandleData) >> >>,
      << NameB, << Prop("phandle", << >>) >> >>,
      << NameB, << Prop("phandle", PhandleData) >> >> }

\* the property lists of the root
RootProps ==
    { << Prop("compatible", CompatibleData) >>,
      << Prop("phandle", LongPhandleData) >> }

\* the names of the children in a list of subnodes
SubnodeNames(f) == { f[i].name : i \in 1..Len(f) }

\* every list of subnodes holding n nodes in all, the children of one node
\* named apart (the decoder names them apart)
RECURSIVE Forests(_)
Forests(n) ==
    IF n = 0 THEN { << >> }
    ELSE UNION { UNION { { << [name |-> kind[1],
                               node |-> [props |-> kind[2], subnodes |-> sub]] >> \o rest :
                             kind \in { x \in NodeKinds : x[1] \notin SubnodeNames(rest) },
                             sub \in Forests(k) }
                         : rest \in Forests(n - 1 - k) }
                 : k \in 0..(n - 1) }

DecoderTrees ==
    { [props |-> rp, subnodes |-> f] :
        rp \in RootProps, f \in UNION { Forests(n) : n \in 0..MaxNodes } }

\* some node of the tree has a property with empty data
RECURSIVE HasEmptyProperty(_)
HasEmptyProperty(node) ==
    \/ \E i \in 1..Len(node.props) : Len(node.props[i].data) = 0
    \/ \E i \in 1..Len(node.subnodes) : HasEmptyProperty(node.subnodes[i].node)

\* the values resolve_phandle is called with: 0, 5, 7 and 0x01000100
ResolveValues == { << 0, 0 >>, << 0, 5 >>, << 0, 7 >>, << 256, 256 >> }

----------------------------------------------------------------------------
(* The parser: construction, then any public method, any number of times *)

\* DtbParser.__init__
Init ==
    /\ dtb \in DecoderTrees
    \* the decoder's choice shows only on a tree with an empty property
    /\ empty_truthy \in (IF HasEmptyProperty(dtb) THEN BOOLEAN ELSE { TRUE })
    /\ phandle_map = BuildPhandleMap(dtb)
    /\ op = "init"
    /\ arg = << 0, 0 >>
    /\ ret = NotCalled
    /\ data = << >>
    /\ decoded = NotCalled

GetRootNode ==
    /\ op' = "get_root_node"
    /\ arg' = << 0, 0 >>
    /\ ret' = [kind |-> "node", val |-> ConvertFdtNodeToCustom(Root, dtb)]
    /\ UNCHANGED <<dtb, empty_truthy, phandle_map, data, decoded>>

TraverseTree ==
    /\ op' = "traverse_tree"
    /\ arg' = << 0, 0 >>
    /\ ret' = [kind |-> "records", val |-> << BuildNodeDict(Root, dtb) >>]
    /\ UNCHANGED <<dtb, empty_truthy, phandle_map, data, decoded>>

ResolvePhandle(phandle_value) ==
    /\ op' = "resolve_phandle"
    /\ arg' = phandle_value
    /\ ret' = MapGet(phandle_map, phandle_value)
    /\ UNCHANGED <<dtb, empty_truthy, phandle_map, data, decoded>>

Next ==
    \/ GetRootNode
    \/ TraverseTree
    \/ \E v \in ResolveValues : ResolvePhandle(v)

Spec == Init /\ [][Next]_vars

----------------------------------------------------------------------------
(* Inputs of the decoder *)

\* every byte string over Bytes of at most MaxLen bytes, and every string of
\* 1..MaxCells 4-byte cells over CellBytes
DataInputs ==
    UNION { [1..k -> Bytes] : k \in 0..MaxLen }
        \cup UNION { [1..(4 * k) -> CellBytes] : k \in 1..MaxCells }

\* the decoder tree the decoder specification leaves alone
EmptyTree == [props |-> << >>, subnodes |-> << >>]

DecodeInit ==
    /\ data \in DataInputs
    /\ decoded = NotCalled
    /\ dtb = EmptyTree
    /\ empty_truthy = TRUE
    /\ phandle_map = << >>
    /\ op = "init"
    /\ arg = << 0, 0 >>
    /\ ret = NotCalled

\* a call self._decode_property(prop_value) with prop_value.data = data
CallDecodeProperty ==
    /\ decoded' = DecodeProperty(data)
    /\ UNCHANGED <<dtb, empty_truthy, phandle_map, op, arg, ret, data>>

DecodeNext == CallDecodeProperty

DecodeSpec == DecodeInit /\ [][DecodeNext]_vars

----------------------------------------------------------------------------
(* Properties of _decode_property, under DecodeSpec *)

Called == decoded.kind # "notcalled"

\* the positions where a maximal NUL-free run of d starts
RunStarts(d) == { i \in 1..Len(d) : d[i] # 0 /\ (i = 1 \/ d[i - 1] = 0) }

\* the k-th maximal NUL-free run of d, in order of position
Run(d, k) ==
    LET s == CHOOSE i \in RunStarts(d) :
                 Cardinality({ j \in RunStarts(d) : j <= i }) = k
        e == CHOOSE j \in s..Len(d) :
                 /\ \A x \in s..j : d[x] # 0
                 /\ (j = Len(d) \/ d[j + 1] = 0)
    IN  SubSeq(d, s, e)

\* the four bytes of a cell, most significant first
CellBytesOf(c) == << c[1] \div 256, c[1] % 256, c[2] \div 256, c[2] % 256 >>

IsU32(c) == c[1] \in 0..65535 /\ c[2] \in 0..65535

\* C6: data with a NUL byte that is not all zero decodes to the text of its
\* maximal NUL-free runs, in order: a single string when there is one run,
\* the list of them otherwise; never bytes, never an integer.
C6_StringDataDecodesToSegments ==
    (Called /\ HasNull(data) /\ ~AllZero(data)) =>
        LET n == Cardinality(RunStarts(data))
        IN  IF n = 1
            THEN decoded.kind = "str" /\ decoded.val = DecodeUtf8Ignore(Run(data, 1))
            ELSE /\ decoded.kind = "strlist"
                 /\ Len(decoded.val) = n
                 /\ \A k \in 1..n : decoded.val[k] = DecodeUtf8Ignore(Run(data, k))

\* C6 witness: a 4-byte value with two NUL-free runs was decoded to a list
\* of two strings
C6_Witness ==
    /\ Called /\ Len(data) = 4 /\ HasNull(data)
    /\ decoded.kind = "strlist" /\ Len(decoded.val) = 2

\* C7: non-empty data without a NUL byte whose length is a multiple of 4
\* decodes to one unsigned 32-bit integer per 4 bytes, in order (a single
\* integer for 4 bytes, a list otherwise), and writing each integer back as 4
\* big-endian bytes gives the data again.
C7_CellDataDecodesBigEndian ==
    (Called /\ Len(data) > 0 /\ Len(data) % 4 = 0 /\ ~HasNull(data)) =>
        IF Len(data) = 4
        THEN decoded.kind = "int" /\ IsU32(decoded.val) /\ CellBytesOf(decoded.val) = data
        ELSE /\ decoded.kind = "intlist"
             /\ Len(decoded.val) = Len(data) \div 4
             /\ \A k \in 1..Len(decoded.val) : IsU32(decoded.val[k])
             /\ \A i \in 1..Len(data) :
                    data[i] = CellBytesOf(decoded.val[((i - 1) \div 4) + 1])[((i - 1) % 4) + 1]

\* C7 witness: a list of two cells was decoded from 8 bytes without a NUL
C7_Witness ==
    /\ Called /\ Len(data) = 8 /\ ~HasNull(data)
    /\ decoded.kind = "intlist"
    /\ decoded.val[1] # decoded.val[2]

\* C1 as stated: whatever is neither string data (a NUL byte, not all zero)
\* nor NUL-free cell data comes back as the same bytes.
C1_Original ==
    (/\ Called
     /\ ~(HasNull(data) /\ ~AllZero(data))
     /\ ~(Len(data) > 0 /\ Len(data) % 4 = 0 /\ ~HasNull(data)))
        => (decoded.kind = "bytes" /\ decoded.val = data)

\* C1 amended: data that is not string data and whose length is 0 or not a
\* multiple of 4 comes back as the same bytes; all-zero data of a non-zero
\* length that is a multiple of 4 is cell data and decodes to zero cells.
C1_OpaqueUnlessCells ==
    Called =>
        /\ (~(HasNull(data) /\ ~AllZero(data)) /\ (Len(data) = 0 \/ Len(data) % 4 # 0))
              => (decoded.kind = "bytes" /\ decoded.val = data)
        /\ (AllZero(data) /\ Len(data) = 4) => (decoded.kind = "int" /\ decoded.val = <<0, 0>>)
        /\ (AllZero(data) /\ Len(data) > 4 /\ Len(data) % 4 = 0)
              => /\ decoded.kind = "intlist"
                 /\ Len(decoded.val) = Len(data) \div 4
                 /\ \A k \in 1..Len(decoded.val) : decoded.val[k] = <<0, 0>>

\* C1 witness: an all-zero value of 2 bytes was returned as bytes
C1_Witness ==
    /\ Called /\ decoded.kind = "bytes"
    /\ Len(data) = 2 /\ AllZero(data)

\* C8 as stated: a lone NUL byte decodes to a list of zero strings.
C8_Original ==
    (Called /\ data = <<0>>) => (decoded.kind = "strlist" /\ Len(decoded.val) = 0)

\* C8 amended: a lone NUL byte is all zero, so it is not string data and
\* comes back as the same byte; string data always has a surviving segment,
\* so a list of strings has at least two elements and is never empty.
C8_LoneNullIsOpaque ==
    Called =>
        /\ (data = <<0>>) => (decoded.kind = "bytes" /\ decoded.val = <<0>>)
        /\ (decoded.kind = "strlist") => Len(decoded.val) >= 2

\* C8 witness: the lone NUL byte was decoded
C8_Witness == Called /\ data = <<0>> /\ decoded.kind = "bytes"

----------------------------------------------------------------------------
(* Properties of the tree walks and the phandle index, under Spec *)

\* A position is the list of child indices leading from the root to a node.
RECURSIVE Positions(_)
Positions(node) ==
    { << >> } \cup
    UNION { { << i >> \o q : q \in Positions(node.subnodes[i].node) }
            : i \in 1..Len(node.subnodes) }

\* the decoder node at a position
RECURSIVE FdtAt(_, _)
FdtAt(node, pos) ==
    IF pos = << >> THEN node
    ELSE FdtAt(node.subnodes[pos[1]].node, Tail(pos))

\* the node at a position of a tree whose nodes hold their children in .children
RECURSIVE ChildAt(_, _)
ChildAt(node, pos) ==
    IF pos = << >> THEN node
    ELSE ChildAt(node.children[pos[1]], Tail(pos))

Parent(pos) == SubSeq(pos, 1, Len(pos) - 1)

\* the name the decoder gives the node at a position, empty for the root
DeclaredName(pos) ==
    IF pos = << >> THEN << >>
    ELSE FdtAt(dtb, Parent(pos)).subnodes[pos[Len(pos)]].name

\* the path of a position by the joining rule: "/" for the root, "/x" for a
\* child x of the root, p + "/" + y for a child y of any other node
RECURSIVE PathAt(_)
PathAt(pos) ==
    IF pos = << >> THEN << "/" >>
    ELSE LET p == PathAt(Parent(pos))
             y == DeclaredName(pos)
         IN  IF p = << "/" >> THEN << "/" >> \o y ELSE p \o << "/" >> \o y

\* p is visited before q in the depth-first, declaration-order walk
Before(p, q) ==
    \/ Len(p) < Len(q) /\ SubSeq(q, 1, Len(p)) = p
    \/ \E i \in 1..Len(p) :
          /\ i <= Len(q)
          /\ SubSeq(p, 1, i - 1) = SubSeq(q, 1, i - 1)
          /\ p[i] < q[i]

\* the node at pos carries a property called phandle
HasPhandle(pos) ==
    \E i \in 1..Len(FdtAt(dtb, pos).props) : FdtAt(dtb, pos).props[i].name = "phandle"

PhandleBytes(pos) ==
    LET nd == FdtAt(dtb, pos)
    IN  nd.props[CHOOSE i \in 1..Len(nd.props) : nd.props[i].name = "phandle"].data

\* at most the first 4 bytes of b, zero-filled on the left to 4 bytes
Padded4(b) ==
    LET n == IF Len(b) < 4 THEN Len(b) ELSE 4
    IN  [i \in 1..4 |-> IF i <= 4 - n THEN 0 ELSE b[i - (4 - n)]]

\* the parser reads the phandle of the node at pos: the property is there,
\* and it is not an empty property of a decoder whose empty properties are falsy
Declares(pos) == HasPhandle(pos) /\ (Len(PhandleBytes(pos)) > 0 \/ empty_truthy)

\* the nodes declaring value v, the big-endian value of the property's first
\* 4 bytes (of all its bytes when it has fewer)
Declaring(v) == { p \in Positions(dtb) : Declares(p) /\ Padded4(PhandleBytes(p)) = CellBytesOf(v) }

\* the node of a non-empty set of positions that the walk visits last
LastVisited(S) == CHOOSE p \in S : \A q \in S \ {p} : Before(q, p)

\* C3 as stated: one entry per node with a phandle property of at least 4
\* bytes and no other entry, each keyed by the value of the first 4 bytes and
\* mapped to the node's path.
C3_Original ==
    LET D == { p \in Positions(dtb) : HasPhandle(p) /\ Len(PhandleBytes(p)) >= 4 }
    IN  /\ Cardinality(DOMAIN phandle_map) = Cardinality(D)
        /\ \A p \in D :
              \E k \in DOMAIN phandle_map :
                  /\ CellBytesOf(k) = Padded4(PhandleBytes(p))
                  /\ phandle_map[k] = PathAt(p)

\* C3 amended: the index has one entry per distinct value declared, by a
\* phandle property of any length (fewer than 4 bytes are read as a shorter
\* big-endian number), and each value is mapped to the path of the node
\* declaring it that the walk visits last.
C3_IndexIsLastDeclarer ==
    /\ \A p \in Positions(dtb) :
          Declares(p) => \E k \in DOMAIN phandle_map : CellBytesOf(k) = Padded4(PhandleBytes(p))
    /\ \A k \in DOMAIN phandle_map :
          /\ IsU32(k)
          /\ Declaring(k) # {}
          /\ phandle_map[k] = PathAt(LastVisited(Declaring(k)))

\* C3 witness: a node without a phandle, and two nodes declaring one value,
\* one of them in 2 bytes, the index holding the later one
C3_Witness ==
    /\ \E p \in Positions(dtb) : ~HasPhandle(p)
    /\ \E p, q \in Positions(dtb) :
          /\ Before(p, q)
          /\ Declares(p) /\ Declares(q)
          /\ Len(PhandleBytes(p)) = 4 /\ Len(PhandleBytes(q)) = 2
          /\ Padded4(PhandleBytes(p)) = Padded4(PhandleBytes(q))
          /\ \E k \in DOMAIN phandle_map : phandle_map[k] = PathAt(q)

\* C4: resolve_phandle(v) returns None when no node declares v, and otherwise
\* the path of the node declaring v that the depth-first, declaration-order
\* walk visits last. (A node declares the value its phandle property is read
\* as; an empty property is read, as 0, by a decoder whose empty properties
\* are truthy and not read at all otherwise.)
C4_ResolveReturnsLastDeclarer ==
    (op = "resolve_phandle") =>
        IF Declaring(arg) = {} THEN ret.kind = "none"
        ELSE ret.kind = "text" /\ ret.val = PathAt(LastVisited(Declaring(arg)))

\* C4 witness: a value declared by a grandchild and then by a later child of
\* the root was resolved to the child
C4_Witness ==
    /\ op = "resolve_phandle"
    /\ ret.kind = "text"
    /\ \E p, q \in Declaring(arg) :
          Len(p) = 2 /\ Len(q) = 1 /\ Before(p, q) /\ ret.val = PathAt(q)

\* the whole of name after its first '@'
AfterFirstAt(name) ==
    LET i == CHOOSE j \in 1..Len(name) :
                 name[j] = "@" /\ \A x \in 1..(j - 1) : name[x] # "@"
    IN  SubSeq(name, i + 1, Len(name))

HasAt(name) == \E i \in 1..Len(name) : name[i] = "@"

\* C5: in every record of traverse_tree, address is the whole of the name
\* after its first '@' when the name has one, and None when it has none.
C5_AddressIsRestOfName ==
    (op = "traverse_tree") =>
        \A p \in Positions(dtb) :
            LET r == ChildAt(ret.val[1], p)
            IN  IF HasAt(DeclaredName(p))
                THEN r.address.kind = "text" /\ r.address.val = AfterFirstAt(DeclaredName(p))
                ELSE r.address.kind = "none"

\* the blob of the end-to-end example: a root with compatible and one child
\* uart@1000 carrying reg = <0x1000 0x100> and phandle = <0x5>
ExampleBlob ==
    [props |-> << Prop("compatible", CompatibleData) >>,
     subnodes |-> << [name |-> NameUart,
                      node |-> [props |-> << Prop("reg", RegData), Prop("phandle", PhandleData) >>,
                                subnodes |-> << >>]] >>]

\* C2: on the example blob get_root_node returns a root with exactly one
\* child, named uart@1000, whose reg is [4096, 256] and whose phandle is 5.
C2_ExampleDecodesCells ==
    (op = "get_root_node" /\ dtb = ExampleBlob) =>
        /\ Len(ret.val.children) = 1
        /\ LET c == ret.val.children[1]
           IN  /\ c.name = NameUart
               /\ c.properties["reg"].kind = "intlist"
               /\ c.properties["reg"].val = << << 0, 4096 >>, << 0, 256 >> >>
               /\ c.properties["phandle"].kind = "int"
               /\ c.properties["phandle"].val = << 0, 5 >>

\* two decoded values are the same value
SameValue(a, b) == a.kind = b.kind /\ a.val = b.val

\* a node object and a record agree on path, name, decoded properties and,
\* child by child in order, on everything below them
RECURSIVE Agree(_, _)
Agree(node, rec) ==
    /\ node.path = rec.path
    /\ node.name = rec.name
    /\ DOMAIN node.properties = DOMAIN rec.props
    /\ \A n \in DOMAIN node.properties : SameValue(node.properties[n], rec.props[n])
    /\ Len(node.children) = Len(rec.children)
    /\ \A i \in 1..Len(node.children) : Agree(node.children[i], rec.children[i])

\* C9: traverse_tree returns one record, and it agrees with the tree of
\* get_root_node node by node, in the same child order, on path, name and
\* decoded properties; a record has the fields of a node object plus address.
C9_WalksAgree ==
    (op = "traverse_tree") =>
        /\ Len(ret.val) = 1
        /\ Agree(ConvertFdtNodeToCustom(Root, dtb), ret.val[1])
        /\ \A p \in Positions(dtb) :
              DOMAIN ChildAt(ret.val[1], p) = { "path", "name", "address", "props", "children" }

\* C9 witness: a walk over a tree with two children of the root and a grandchild
C9_Witness ==
    /\ op = "traverse_tree"
    /\ Len(ret.val[1].children) = 2
    /\ \E i \in 1..2 : Len(ret.val[1].children[i].children) = 1
    /\ \E n \in DOMAIN ret.val[1].children[1].props : TRUE

\* t holds two '/' in a row
HasDoubleSlash(t) == \E i \in 1..(Len(t) - 1) : t[i] = "/" /\ t[i + 1] = "/"

\* the paths and names of a walked tree follow the joining rule
WalkedPathsRight(tree) ==
    /\ \A p \in Positions(dtb) :
          LET n == ChildAt(tree, p)
          IN  /\ n.path = PathAt(p)
              /\ ~HasDoubleSlash(n.path)
              /\ n.name = DeclaredName(p)
              /\ n.name = LastSegment(n.path) \/ p = << >>
    /\ \A p, q \in Positions(dtb) :
          ChildAt(tree, p).path = ChildAt(tree, q).path => p = q

\* C10: in all three walks the root's path is "/", a child x of the root has
\* path "/x" and a child y of a node with another path p has p + "/" + y; no
\* path has a double slash, a node's name is the last segment of its path
\* (empty for the root), and no two nodes share a path.
C10_PathsFollowJoiningRule ==
    /\ (op = "get_root_node") => WalkedPathsRight(ret.val)
    /\ (op = "traverse_tree") => WalkedPathsRight(ret.val[1])
    /\ \A k \in DOMAIN phandle_map :
          /\ ~HasDoubleSlash(phandle_map[k])
          /\ \E p \in Declaring(k) : phandle_map[k] = PathAt(p)

\* C10 witness: get_root_node walked a root, a child and a grandchild, and the
\* index holds the path of a grandchild
C10_Witness ==
    /\ op = "get_root_node"
    /\ ret.val.path = << "/" >>
    /\ \E i \in 1..Len(ret.val.children) :
          Len(ret.val.children[i].children) > 0
    /\ \E k \in DOMAIN phandle_map : \E p \in Declaring(k) :
          Len(p) = 2 /\ phandle_map[k] = PathAt(p)

====
